---- MODULE Spec2Model ----
(***************************************************************************)
(* The two MCP tool handlers of the repository:                            *)
(*   get-iss-schedule  (src/unnamed/part_000)                              *)
(*   get_weather       (src/mcp-server/tools/get_weather.ts)               *)
(*                                                                         *)
(* JavaScript strings are TLA+ strings (Len, SubSeq and \o work on them).  *)
(* JavaScript objects are functions from field names to values, so that a  *)
(* field can be absent (f \notin DOMAIN o).  The non-ASCII glyphs of the   *)
(* text templates are written as ASCII stand-ins (see the Glyph            *)
(* definitions); everything else of the templates is verbatim.             *)
(*                                                                         *)
(* A handler suspends only at its await; each action below is one          *)
(* synchronous run of handler code between two suspension points.  The     *)
(* handlers share no state, so one invocation is in flight at a time.      *)
(***************************************************************************)
EXTENDS FiniteSets, Integers, Sequences, TLC

VARIABLES
    fileExists,   \* fs.existsSync(csvPath)
    fileRows,     \* what csv-parser yields for the file, in file order
    pc,           \* "idle", "reading", "awaiting", "done"
    tool,         \* the handler in flight or last completed
    args,         \* the validated input object of that invocation
    reads,        \* fs.createReadStream calls made by that invocation
    requests,     \* getJson calls made by that invocation
    query,        \* the q parameter of that invocation's getJson call
    prevRequest,  \* <<>> or <<[loc, date, q]>>: the previous invocation's call
    json,         \* <<>> or <<result>>: what the getJson callback received
    settled,      \* how the awaited promise settled: "none", "resolved", "rejected"
    ret           \* how the invocation ended: an envelope, or a rejection

vars == <<fileExists, fileRows, pc, tool, args, reads, requests, query,
          prevRequest, json, settled, ret>>

----------------------------------------------------------------------------
(* Bounds *)

MaxRows == 3

----------------------------------------------------------------------------
(* JavaScript string primitives *)

UpperChars == "ABCDEFGHIJKLMNOPQRSTUVWXYZ"
LowerChars == "abcdefghijklmnopqrstuvwxyz"

CharAt(s, i) == SubSeq(s, i, i)

\* String.prototype.toLowerCase on one character
LowerChar(c) ==
    IF \E i \in 1..Len(UpperChars) : CharAt(UpperChars, i) = c
    THEN CharAt(LowerChars, CHOOSE i \in 1..Len(UpperChars) : CharAt(UpperChars, i) = c)
    ELSE c

RECURSIVE LowerFrom(_, _)
LowerFrom(s, i) ==
    IF i > Len(s) THEN "" ELSE LowerChar(CharAt(s, i)) \o LowerFrom(s, i + 1)

\* String.prototype.toLowerCase
toLowerCase(s) == LowerFrom(s, 1)

\* String.prototype.includes: a contiguous occurrence; "" occurs everywhere
includes(hay, needle) ==
    \E i \in 1..(Len(hay) - Len(needle) + 1) :
        SubSeq(hay, i, i + Len(needle) - 1) = needle

\* truthiness of an optional string field: undefined and "" are falsy
Truthy(o, f) == f \in DOMAIN o /\ o[f] # ""

----------------------------------------------------------------------------
(* Glyphs of the text templates, as ASCII stand-ins *)

GlyphDash      == "--"          \* U+2014
GlyphArrow     == "->"          \* U+2192
GlyphCalendar  == "[calendar]"  \* U+1F4C5
GlyphClock     == "[clock]"     \* U+1F555
GlyphWrench    == "[wrench]"    \* U+1F527
GlyphPin       == "[pin]"       \* U+1F4CD
GlyphMemo      == "[memo]"      \* U+1F4DD
GlyphSatellite == "[satellite]" \* U+1F6F0 U+FE0F

----------------------------------------------------------------------------
(* get-iss-schedule: data *)

RequiredFields ==
    {"Date", "Day", "Crew Member", "Role", "Shift Start (UTC)",
     "Shift End (UTC)", "Activity", "Location"}

CrewRecord(date, day, crew, role, start, end, activity, location) ==
    [f \in RequiredFields |->
        CASE f = "Date" -> date
          [] f = "Day" -> day
          [] f = "Crew Member" -> crew
          [] f = "Role" -> role
          [] f = "Shift Start (UTC)" -> start
          [] f = "Shift End (UTC)" -> end
          [] f = "Activity" -> activity
          [] f = "Location" -> location]

WithNotes(r, notes) == [f \in DOMAIN r \cup {"Notes"} |-> IF f = "Notes" THEN notes ELSE r[f]]

\* The rows the schedule file is made of
RecordPool ==
    { WithNotes(CrewRecord("2025-01-06", "Monday", "Jane Doe", "Commander",
                           "06:00", "14:00", "EVA prep", "Quest"), "Bring tools"),
      CrewRecord("2025-01-07", "Tuesday", "John Doerr", "Pilot",
                 "08:00", "16:00", "Robotics", "Cupola"),
      WithNotes(CrewRecord("2025-01-13", "MONDAY", "JANET Lee", "Engineer",
                           "14:00", "22:00", "Repair", "Zvezda"), "") }

RECURSIVE SeqsUpTo(_, _)
SeqsUpTo(S, n) ==
    IF n = 0 THEN {<<>>}
    ELSE LET shorter == SeqsUpTo(S, n - 1)
         IN  shorter \cup {Append(s, x) : s \in shorter, x \in S}

Files == SeqsUpTo(RecordPool, MaxRows)

DayInputs  == {"", "monday", "mon", "TUESDAY"}
NameInputs == {"", "jane", "DOE", "nobody"}

\* the inputs the inputSchema admits: day and name are optional strings
ScheduleInputs ==
    {[f \in {} |-> ""]}
    \cup {[day |-> d] : d \in DayInputs}
    \cup {[name |-> n] : n \in NameInputs}
    \cup {[day |-> d, name |-> n] : d \in DayInputs, n \in NameInputs}

----------------------------------------------------------------------------
(* Envelopes *)

NoReturn == [kind |-> "none"]

Envelope(text, structured) ==
    [kind |-> "returned",
     content |-> <<[type |-> "text", text |-> text]>>,
     structuredContent |-> structured]

Rejected(message) == [kind |-> "threw", message |-> message]

----------------------------------------------------------------------------
(* get-iss-schedule: handler *)

FileNotFoundMessage == "Schedule file not found in util/ directory"

\* the messages a failing read stream rejects with
StreamErrorMessages ==
    {"ENOENT: no such file or directory", "EACCES: permission denied"}

FailurePhrase == "Failed to read ISS schedule: "

\* the catch block
FailureEnvelope(message) ==
    Envelope(FailurePhrase \o message, [error |-> message])

DayMatches(r, day) == toLowerCase(r["Day"]) = toLowerCase(day)

FilterByDay(records, input) ==
    IF Truthy(input, "day")
    THEN SelectSeq(records, LAMBDA r : DayMatches(r, input["day"]))
    ELSE records

\* mutant: the match is case-sensitive
M_NameMatchesCaseSensitive(r, name) == includes(r["Crew Member"], name)

NameMatches(r, name) ==
    includes(toLowerCase(r["Crew Member"]), toLowerCase(name))

FilterByName(records, input) ==
    IF Truthy(input, "name")
    THEN SelectSeq(records, LAMBDA r : NameMatches(r, input["name"]))
    ELSE records

\* mutant: the name filter is applied to records instead of filtered
M_FilteredNameFromRecords(records, input) ==
    IF Truthy(input, "name") THEN FilterByName(records, input) ELSE FilterByDay(records, input)

Filtered(records, input) == FilterByName(FilterByDay(records, input), input)

OrDash(o, f) == IF Truthy(o, f) THEN o[f] ELSE GlyphDash

\* mutant: the message leaves the name filter out
M_EmptyTextWithoutName(input) ==
    "No schedule entries found for filters: day=\"" \o OrDash(input, "day") \o "\""

EmptyText(input) ==
    "No schedule entries found for filters: day=\"" \o OrDash(input, "day")
        \o "\", name=\"" \o OrDash(input, "name") \o "\""

EmptyEnvelope(input) == Envelope(EmptyText(input), [results |-> <<>>])

\* mutant: the note is left out of the paragraph
M_NotesLineDropped(r) == ""

NotesLine(r) ==
    IF Truthy(r, "Notes") THEN "\n" \o GlyphMemo \o " " \o r["Notes"] ELSE ""

Paragraph(r) ==
    GlyphCalendar \o " **" \o r["Day"] \o " (" \o r["Date"] \o ")** "
        \o GlyphDash \o " " \o r["Crew Member"] \o " (" \o r["Role"] \o ")\n"
        \o GlyphClock \o " " \o r["Shift Start (UTC)"] \o " " \o GlyphArrow
        \o " " \o r["Shift End (UTC)"] \o "\n"
        \o GlyphWrench \o " **Activity:** " \o r["Activity"] \o "\n"
        \o GlyphPin \o " " \o r["Location"] \o NotesLine(r)

ParagraphSeparator == "\n\n---\n\n"

RECURSIVE JoinFrom(_, _, _)
JoinFrom(parts, i, sep) ==
    IF i > Len(parts) THEN ""
    ELSE IF i = Len(parts) THEN parts[i]
    ELSE parts[i] \o sep \o JoinFrom(parts, i + 1, sep)

\* Array.prototype.join
Join(parts, sep) == JoinFrom(parts, 1, sep)

Summary(records) ==
    Join([i \in 1..Len(records) |-> Paragraph(records[i])], ParagraphSeparator)

HeaderText(n) ==
    GlyphSatellite \o " **ISS Crew Schedule** (" \o ToString(n) \o " entries)\n\n"

DataEnvelope(records) ==
    Envelope(HeaderText(Len(records)) \o Summary(records), [results |-> records])

\* the handler's code after the read resolved
ScheduleResult(records, input) ==
    LET filtered == Filtered(records, input)
    IN  IF Len(filtered) = 0 THEN EmptyEnvelope(input) ELSE DataEnvelope(filtered)

Idle == pc \in {"idle", "done"}

\* the getJson call of the invocation that just ended, if it made one
LastRequest ==
    IF requests > 0
    THEN <<[loc |-> args.location_name, date |-> args.date_YYYYMMDD, q |-> query]>>
    ELSE prevRequest

\* mutant: the read is started without the existence check
M_ScheduleInvokeWithoutCheck(input) ==
    /\ Idle
    /\ tool' = "get-iss-schedule"
    /\ args' = input
    /\ requests' = 0
    /\ query' = ""
    /\ prevRequest' = LastRequest
    /\ json' = <<>>
    /\ settled' = "none"
    /\ reads' = 1
    /\ ret' = NoReturn
    /\ pc' = "reading"
    /\ UNCHANGED <<fileExists, fileRows>>

\* the handler up to its await: the existence check, then the read is started
ScheduleInvoke(input) ==
    /\ Idle
    /\ tool' = "get-iss-schedule"
    /\ args' = input
    /\ requests' = 0
    /\ query' = ""
    /\ prevRequest' = LastRequest
    /\ json' = <<>>
    /\ settled' = "none"
    /\ IF ~fileExists
       THEN /\ reads' = 0
            /\ ret' = FailureEnvelope(FileNotFoundMessage)
            /\ pc' = "done"
       ELSE /\ reads' = 1
            /\ ret' = NoReturn
            /\ pc' = "reading"
    /\ UNCHANGED <<fileExists, fileRows>>

\* the stream's "end" event: the promise resolves with the rows
ScheduleReadEnd ==
    /\ pc = "reading"
    /\ settled' = "resolved"
    /\ ret' = ScheduleResult(fileRows, args)
    /\ pc' = "done"
    /\ UNCHANGED <<fileExists, fileRows, tool, args, reads, requests, query,
                   prevRequest, json>>

\* the stream's "error" event: the promise rejects, the catch block runs
ScheduleReadError(message) ==
    /\ pc = "reading"
    /\ settled' = "rejected"
    /\ ret' = FailureEnvelope(message)
    /\ pc' = "done"
    /\ UNCHANGED <<fileExists, fileRows, tool, args, reads, requests, query,
                   prevRequest, json>>

----------------------------------------------------------------------------
(* get_weather: data *)

\* JSON values, tagged with their typeof
Undefined  == [t |-> "undefined"]
Num(n)     == [t |-> "number", n |-> n]
Str(s)     == [t |-> "string", s |-> s]
Obj(o)     == [t |-> "object", o |-> o]

EmptyObject == [f \in {} |-> Undefined]

IsTruthy(v) ==
    CASE v.t = "undefined" -> FALSE
      [] v.t = "number" -> v.n # 0
      [] v.t = "string" -> v.s # ""
      [] OTHER -> TRUE

\* obj.f, undefined when the field is absent
Field(o, f) == IF f \in DOMAIN o THEN o[f] ELSE Undefined

\* obj?.f
OptionalField(v, f) == IF v.t = "object" THEN Field(v.o, f) ELSE Undefined

\* Date objects, by the parts their string form is made of
Dates ==
    { [dow |-> "Mon", mon |-> "Jan", mm |-> "01", dd |-> "06", yyyy |-> "2025"],
      [dow |-> "Tue", mon |-> "Jan", mm |-> "01", dd |-> "07", yyyy |-> "2025"] }

Locations == {"Paris", "Rome"}

WeatherInputs == [location_name : Locations, date_YYYYMMDD : Dates]

\* the answer_box sections the search service may send
AnswerBoxes ==
    { [temperature |-> Num(72), wind |-> Str("5 mph"), precipitation |-> Str("10%")],
      [temperature |-> Str("72"), wind |-> Str("5 mph"), precipitation |-> Str("10%")],
      [temperature |-> Num(72), precipitation |-> Str("10%")],
      [type |-> Str("calculator_result")],
      EmptyObject }

\* what the getJson callback may receive
CallbackResults ==
    {Undefined}
    \cup {Obj([search_metadata |-> Str("Success")])}
    \cup {Obj([search_metadata |-> Str("Success"), answer_box |-> Obj(b)]) : b \in AnswerBoxes}

----------------------------------------------------------------------------
(* get_weather: handler *)

\* the string form of the function object Date.prototype.toString
ToStringFunctionSource == "function toString() { [native code] }"

\* date_YYYYMMDD.toString in a string concatenation: the method is read, not called
DateOperand(d) == ToStringFunctionSource

BuildQuery(input) ==
    "what is the weather in " \o input.location_name \o " on "
        \o DateOperand(input.date_YYYYMMDD)

NoResultMessage == "No result from SerpAPI"

\* JSON.stringify of a value
StringifyValue(v) ==
    CASE v.t = "number" -> ToString(v.n)
      [] v.t = "string" -> "\"" \o v.s \o "\""
      [] OTHER -> "null"

\* JSON.stringify of one member; a member whose value is undefined is left out
StringifyMember(o, f) ==
    IF o[f].t = "undefined" THEN <<>> ELSE <<"\"" \o f \o "\":" \o StringifyValue(o[f])>>

\* JSON.stringify of an object whose keys were inserted in the order keys
StringifyObject(o, keys) ==
    LET RECURSIVE Members(_)
        Members(i) ==
            IF i > Len(keys) THEN <<>> ELSE StringifyMember(o, keys[i]) \o Members(i + 1)
    IN  "{" \o Join(Members(1), ",") \o "}"

WeatherKeys == <<"temperature", "winds", "precipitation">>

NotFoundOutput == [result |-> Str("not found")]

\* the projection of the answer_box
Projection(body) ==
    [temperature |-> Field(body.o, "temperature"),
     winds |-> Field(body.o, "wind"),
     precipitation |-> Field(body.o, "precipitation")]

HasBody(body) == IsTruthy(body)

WeatherOutput(result) ==
    LET body == OptionalField(result, "answer_box")
    IN  IF HasBody(body) THEN Projection(body) ELSE NotFoundOutput

WeatherText(output) ==
    IF "result" \in DOMAIN output
    THEN StringifyObject(output, <<"result">>)
    ELSE StringifyObject(output, WeatherKeys)

WeatherEnvelope(result) ==
    LET output == WeatherOutput(result)
    IN  Envelope(WeatherText(output), output)

\* the handler up to its await: the query is built and getJson is called
WeatherInvoke(input) ==
    /\ Idle
    /\ tool' = "get_weather"
    /\ args' = input
    /\ reads' = 0
    /\ requests' = 1
    /\ query' = BuildQuery(input)
    /\ prevRequest' = LastRequest
    /\ json' = <<>>
    /\ settled' = "none"
    /\ ret' = NoReturn
    /\ pc' = "awaiting"
    /\ UNCHANGED <<fileExists, fileRows>>

\* the getJson callback: resolve on a truthy result, reject otherwise;
\* nothing in the handler catches the rejection
WeatherCallback(result) ==
    /\ pc = "awaiting"
    /\ json' = <<result>>
    /\ settled' = IF IsTruthy(result) THEN "resolved" ELSE "rejected"
    /\ ret' = IF IsTruthy(result) THEN WeatherEnvelope(result) ELSE Rejected(NoResultMessage)
    /\ pc' = "done"
    /\ UNCHANGED <<fileExists, fileRows, tool, args, reads, requests, query, prevRequest>>

----------------------------------------------------------------------------
(* The system *)

Init ==
    /\ fileExists \in BOOLEAN
    /\ fileRows \in (IF fileExists THEN Files ELSE {<<>>})
    /\ pc = "idle"
    /\ tool = "none"
    /\ args = [f \in {} |-> ""]
    /\ reads = 0
    /\ requests = 0
    /\ query = ""
    /\ prevRequest = <<>>
    /\ json = <<>>
    /\ settled = "none"
    /\ ret = NoReturn

Next ==
    \/ \E input \in ScheduleInputs : ScheduleInvoke(input)
    \/ ScheduleReadEnd
    \/ \E message \in StreamErrorMessages : ScheduleReadError(message)
    \/ \E input \in WeatherInputs : WeatherInvoke(input)
    \/ \E result \in CallbackResults : WeatherCallback(result)

Spec == Init /\ [][Next]_vars

----------------------------------------------------------------------------
(* Vocabulary of the properties *)

ScheduleDone == pc = "done" /\ tool = "get-iss-schedule"
WeatherDone  == pc = "done" /\ tool = "get_weather"

Returned == ret.kind = "returned"

IsFailure == Returned /\ "error" \in DOMAIN ret.structuredContent

\* the schedule handler read the file and returned a result list
ScheduleAnswered == ScheduleDone /\ settled = "resolved" /\ Returned /\ ~IsFailure

Results == ret.structuredContent.results

Text == ret.content[1].text

Range(seq) == {seq[i] : i \in 1..Len(seq)}

\* a and b are equal once both are lower-cased
EqualsIgnoringCase(a, b) ==
    /\ Len(a) = Len(b)
    /\ \A i \in 1..Len(a) : LowerChar(CharAt(a, i)) = LowerChar(CharAt(b, i))

\* needle, lower-cased, occurs contiguously in hay, lower-cased
ContainsIgnoringCase(hay, needle) ==
    \E i \in 0..(Len(hay) - Len(needle)) :
        EqualsIgnoringCase(SubSeq(hay, i + 1, i + Len(needle)), needle)

\* the result list the handler gives for a file and an input
ResultsFor(rows, input) == ScheduleResult(rows, input).structuredContent.results

\* the first position of sub in s, 0 when it does not occur
IndexOf(s, sub) ==
    IF includes(s, sub)
    THEN CHOOSE i \in 1..(Len(s) - Len(sub) + 1) :
            /\ SubSeq(s, i, i + Len(sub) - 1) = sub
            /\ \A j \in 1..(i - 1) : SubSeq(s, j, j + Len(sub) - 1) # sub
    ELSE 0

RECURSIVE Split(_, _)
Split(s, sep) ==
    LET i == IndexOf(s, sep)
    IN  IF i = 0 THEN <<s>>
        ELSE <<SubSeq(s, 1, i - 1)>> \o Split(SubSeq(s, i + Len(sep), Len(s)), sep)

----------------------------------------------------------------------------
(* C1: every invocation of either handler ends by returning an envelope --  *)
(* content holding a text item, and a structuredContent -- whatever its I/O *)
(* did; no invocation ends with an exception or a rejected promise.         *)
C1_EveryInvocationReturnsEnvelope ==
    pc = "done" =>
        /\ ret.kind = "returned"
        /\ Len(ret.content) >= 1
        /\ ret.content[1].type = "text"

----------------------------------------------------------------------------
(* C2: every envelope that is not a Failure envelope carries a              *)
(* structuredContent that conforms to the outputSchema of its tool:         *)
(* {results: records with the eight required string fields} for             *)
(* get-iss-schedule, {temperature: number, winds: string, precipitation:    *)
(* string} for get_weather.                                                 *)
ConformsToScheduleSchema(sc) ==
    /\ "results" \in DOMAIN sc
    /\ \A i \in 1..Len(sc.results) : RequiredFields \subseteq DOMAIN sc.results[i]

ConformsToWeatherSchema(sc) ==
    /\ {"temperature", "winds", "precipitation"} \subseteq DOMAIN sc
    /\ sc.temperature.t = "number"
    /\ sc.winds.t = "string"
    /\ sc.precipitation.t = "string"

C2_SuccessConformsToOutputSchema ==
    (pc = "done" /\ Returned /\ ~IsFailure) =>
        IF tool = "get_weather"
        THEN ConformsToWeatherSchema(ret.structuredContent)
        ELSE ConformsToScheduleSchema(ret.structuredContent)

----------------------------------------------------------------------------
(* C3: when the input provides a day string and the file was read, the      *)
(* results are exactly the file records, in file order and restricted by    *)
(* the name filter, whose Day equals the day string once both are           *)
(* lower-cased; when day is absent no day filtering is applied.             *)
C3_DayFilterIsExactMatch ==
    ScheduleAnswered =>
        IF "day" \in DOMAIN args
        THEN Results = SelectSeq(FilterByName(fileRows, args),
                                 LAMBDA r : EqualsIgnoringCase(r["Day"], args["day"]))
        ELSE Results = FilterByName(fileRows, args)

----------------------------------------------------------------------------
(* C4: when the input provides a name string and the file was read, the     *)
(* results are exactly the records left by the day stage, in file order,    *)
(* whose Crew Member, lower-cased, contains the lower-cased name as a       *)
(* contiguous substring.                                                    *)
C4_NameFilterIsSubstringMatch ==
    (ScheduleAnswered /\ "name" \in DOMAIN args) =>
        Results = SelectSeq(FilterByDay(fileRows, args),
                            LAMBDA r : ContainsIgnoringCase(r["Crew Member"], args["name"]))

\* a name filter that matched only through lower-casing dropped a record
C4_Witness ==
    /\ ScheduleAnswered
    /\ "name" \in DOMAIN args
    /\ Results # <<>>
    /\ Len(Results) < Len(fileRows)
    /\ \E r \in Range(Results) : ~includes(r["Crew Member"], args["name"])

----------------------------------------------------------------------------
(* C5: with a day and a name given together, the result list is the         *)
(* intersection, in file order, of the result for the day alone and the     *)
(* result for the name alone, and is the same with the two filters applied  *)
(* in the other order.                                                      *)
C5_FiltersComposeAsIntersection ==
    (ScheduleAnswered /\ {"day", "name"} \subseteq DOMAIN args) =>
        LET byDay  == ResultsFor(fileRows, [day |-> args["day"]])
            byName == ResultsFor(fileRows, [name |-> args["name"]])
        IN  /\ Results = SelectSeq(byDay, LAMBDA r : r \in Range(byName))
            /\ Results = SelectSeq(byName, LAMBDA r : r \in Range(byDay))
            /\ Results = FilterByDay(FilterByName(fileRows, args), args)

\* both filters act: each alone keeps a record that the other drops, and a
\* record passes both
C5_Witness ==
    /\ ScheduleAnswered
    /\ Truthy(args, "day") /\ Truthy(args, "name")
    /\ Results # <<>>
    /\ LET byDay  == ResultsFor(fileRows, [day |-> args["day"]])
           byName == ResultsFor(fileRows, [name |-> args["name"]])
       IN  /\ Range(byDay) \ Range(byName) # {}
           /\ Range(byName) \ Range(byDay) # {}

----------------------------------------------------------------------------
(* C6: when the file was read and no record survives the filters, the       *)
(* handler returns the empty-result envelope, not a Failure envelope:       *)
(* structuredContent is exactly {results: []} and content is one non-empty  *)
(* text that names the day and the name filter that were applied.           *)
C6_EmptyResultIsNotFailure ==
    (ScheduleDone /\ settled = "resolved" /\ Filtered(fileRows, args) = <<>>) =>
        /\ Returned
        /\ ret.structuredContent = [results |-> <<>>]
        /\ Len(ret.content) = 1
        /\ ret.content[1].type = "text"
        /\ Text # ""
        /\ Truthy(args, "day") => includes(Text, "day=\"" \o args["day"] \o "\"")
        /\ Truthy(args, "name") => includes(Text, "name=\"" \o args["name"] \o "\"")

\* a non-empty file from which a day and a name filter left nothing
C6_Witness ==
    /\ ScheduleDone /\ settled = "resolved"
    /\ fileRows # <<>>
    /\ Truthy(args, "day") /\ Truthy(args, "name")
    /\ Returned /\ ret.structuredContent = [results |-> <<>>]

----------------------------------------------------------------------------
(* C7: when the data file is absent the handler returns, for any input, a   *)
(* Failure envelope without reading the file: structuredContent is          *)
(* {error: message} with a non-empty message and content[0].text is the     *)
(* failure phrase followed by that message.                                 *)
C7_MissingFileIsFailure ==
    (tool = "get-iss-schedule" /\ ~fileExists) =>
        /\ pc = "done"
        /\ reads = 0
        /\ Returned
        /\ DOMAIN ret.structuredContent = {"error"}
        /\ ret.structuredContent.error # ""
        /\ Text = "Failed to read ISS schedule: " \o ret.structuredContent.error

\* an invocation with filters against an absent file
C7_Witness ==
    /\ ScheduleDone /\ ~fileExists
    /\ {"day", "name"} \subseteq DOMAIN args

----------------------------------------------------------------------------
(* C8: when the external call returned a response in which the answer       *)
(* section, or one of temperature, wind and precipitation in it, is absent, *)
(* the handler returns an envelope whose structured output reports          *)
(* "not found".                                                             *)
AnswerIsComplete(result) ==
    /\ "answer_box" \in DOMAIN result.o
    /\ {"temperature", "wind", "precipitation"} \subseteq DOMAIN result.o["answer_box"].o

C8_AbsentFieldReportsNotFound ==
    (WeatherDone /\ settled = "resolved" /\ ~AnswerIsComplete(json[1])) =>
        /\ Returned
        /\ ret.structuredContent = [result |-> Str("not found")]

----------------------------------------------------------------------------
(* C9: in a success-with-data envelope the text holds one paragraph per     *)
(* record of results, in the same order, each paragraph holding the value   *)
(* of every field of its record; the count in the header is the length of   *)
(* results.                                                                 *)
C9_TextRendersEveryRecord ==
    (ScheduleAnswered /\ Results # <<>>) =>
        LET cut        == IndexOf(Text, "\n\n")
            header     == SubSeq(Text, 1, cut - 1)
            body       == SubSeq(Text, cut + 2, Len(Text))
            paragraphs == Split(body, "\n\n---\n\n")
        IN  /\ cut > 0
            /\ includes(header, "(" \o ToString(Len(Results)) \o " entries)")
            /\ Len(paragraphs) = Len(Results)
            /\ \A i \in 1..Len(Results) :
                   \A f \in DOMAIN Results[i] : includes(paragraphs[i], Results[i][f])

\* two different records, one of them with a note
C9_Witness ==
    /\ ScheduleAnswered
    /\ Len(Results) = 2
    /\ Results[1] # Results[2]
    /\ \E i \in 1..2 : Truthy(Results[i], "Notes")

----------------------------------------------------------------------------
(* C10: each invocation of get_weather issues exactly one search request,   *)
(* and its query string contains the location name and the value of the     *)
(* date, so that the same location with another date gives another query.   *)
\* what Date.prototype.toString() gives when it is called
DateToString(d) ==
    d.dow \o " " \o d.mon \o " " \o d.dd \o " " \o d.yyyy
        \o " 00:00:00 GMT+0000 (Coordinated Universal Time)"

\* the forms in which a query can carry the value of a date
DateRenderings(d) == {DateToString(d), d.yyyy \o "-" \o d.mm \o "-" \o d.dd}

C10_QueryCarriesLocationAndDate ==
    (tool = "get_weather") =>
        /\ requests = 1
        /\ includes(query, args.location_name)
        /\ \E text \in DateRenderings(args.date_YYYYMMDD) : includes(query, text)
        /\ \A i \in 1..Len(prevRequest) :
               (prevRequest[i].loc = args.location_name
                    /\ prevRequest[i].date # args.date_YYYYMMDD)
                   => prevRequest[i].q # query

====
